---- MODULE Spec2Model ----
(***************************************************************************)
(* Model of lambda_agent.py: predictive auto-scaling and self-heal for an  *)
(* ECS service.  One behaviour of Spec is one invocation of lambda_handler *)
(* against an ECS service (svcDesired, svcRunning) and a configured        *)
(* TARGET_CPU_PER_TASK (target).  SpecDES exercises the pure function      *)
(* double_exponential_smoothing on bounded inputs.                         *)
(*                                                                         *)
(* Python floats are IEEE-754 doubles.  A double is modelled as the record *)
(* [s, m, e] standing for (-1)^s * m * 2^e, with m a natural number held   *)
(* as a little-endian sequence of 15-bit limbs, odd unless the value is 0. *)
(* Dy* operators are exact; D* operators round the exact result to 53      *)
(* significant bits, ties to even, as every float operation of the code    *)
(* does.  Exponents stay far from the overflow and subnormal ranges on the *)
(* model's inputs.                                                        *)
(***************************************************************************)
EXTENDS Integers, Sequences, FiniteSets, TLC

\* ------------------------------------------------------------------ bounds
\* longest metric series the metric source returns
MaxLen == 2
\* largest desiredCount / runningCount of the service before the invocation
MaxCount == 4
\* most task ARNs list_tasks returns
MaxTasks == 6
\* most tasks describe_tasks reports as STOPPED
MaxStopped == 2
\* longest series, largest sample and longest horizon in the forecaster's
\* own specification
MaxSeriesLen == 3
MaxSample == 3
MaxSteps == 3

\* ----------------------------------------------------------- configuration
PERIOD == 60
PREDICT_AHEAD_MIN == 5
\* values of TARGET_CPU_PER_TASK the model is run with (60.0 is the default)
TargetSet == {0 - 60, 0, 50, 60}

\* ------------------------------------------------- natural numbers in limbs
LimbBits == 15
LimbBase == 32768
\* significant bits of a double
Precision == 53

IMax(a, b) == IF a < b THEN b ELSE a

RECURSIVE BTrim(_)
BTrim(a) ==
    IF a # <<>> /\ a[Len(a)] = 0 THEN BTrim(SubSeq(a, 1, Len(a) - 1)) ELSE a

RECURSIVE BFromInt(_)
BFromInt(n) == IF n = 0 THEN <<>> ELSE <<n % LimbBase>> \o BFromInt(n \div LimbBase)

RECURSIVE BToInt(_)
BToInt(a) == IF a = <<>> THEN 0 ELSE a[1] + LimbBase * BToInt(Tail(a))

RECURSIVE BAddC(_, _, _)
BAddC(a, b, c) ==
    IF a = <<>> /\ b = <<>> THEN (IF c = 0 THEN <<>> ELSE <<c>>)
    ELSE LET x == IF a = <<>> THEN 0 ELSE a[1]
             y == IF b = <<>> THEN 0 ELSE b[1]
             t == x + y + c
         IN  <<t % LimbBase>> \o BAddC(IF a = <<>> THEN a ELSE Tail(a),
                                       IF b = <<>> THEN b ELSE Tail(b),
                                       t \div LimbBase)

BAdd(a, b) == BAddC(a, b, 0)

\* a - b - c for a >= b + c, high zero limbs kept
RECURSIVE BSubC(_, _, _)
BSubC(a, b, c) ==
    IF a = <<>> THEN <<>>
    ELSE LET y == IF b = <<>> THEN 0 ELSE b[1]
             t == a[1] - y - c
         IN  <<IF t < 0 THEN t + LimbBase ELSE t>>
             \o BSubC(Tail(a), IF b = <<>> THEN b ELSE Tail(b), IF t < 0 THEN 1 ELSE 0)

BSub(a, b) == BTrim(BSubC(a, b, 0))

\* -1, 0, 1 as a < b, a = b, a > b; compares limbs i, i-1, ..., 1
RECURSIVE BCmpAt(_, _, _)
BCmpAt(a, b, i) ==
    IF i = 0 THEN 0
    ELSE IF a[i] < b[i] THEN 0 - 1
    ELSE IF a[i] > b[i] THEN 1
    ELSE BCmpAt(a, b, i - 1)

BCmp(a, b) ==
    IF Len(a) < Len(b) THEN 0 - 1
    ELSE IF Len(a) > Len(b) THEN 1
    ELSE BCmpAt(a, b, Len(a))

\* a * k + c for 0 <= k, c < LimbBase
RECURSIVE BMulSmall(_, _, _)
BMulSmall(a, k, c) ==
    IF a = <<>> THEN (IF c = 0 THEN <<>> ELSE <<c>>)
    ELSE LET p == a[1] * k + c
         IN  <<p % LimbBase>> \o BMulSmall(Tail(a), k, p \div LimbBase)

RECURSIVE BMul(_, _)
BMul(a, b) ==
    IF a = <<>> \/ b = <<>> THEN <<>>
    ELSE BAdd(BMulSmall(a, b[1], 0),
              LET rest == BMul(a, Tail(b)) IN IF rest = <<>> THEN rest ELSE <<0>> \o rest)

\* quotient and remainder of a by d, 0 < d < LimbBase; limbs i, i-1, ..., 1
RECURSIVE BDivSmallAt(_, _, _, _, _)
BDivSmallAt(a, d, i, rem, acc) ==
    IF i = 0 THEN [q |-> BTrim(acc), r |-> rem]
    ELSE LET cur == rem * LimbBase + a[i]
         IN  BDivSmallAt(a, d, i - 1, cur % d, <<cur \div d>> \o acc)

BDivSmall(a, d) == BDivSmallAt(a, d, Len(a), 0, <<>>)

Zeros(n) == [i \in 1..n |-> 0]

\* a * 2^n
BShl(a, n) ==
    IF a = <<>> THEN a
    ELSE Zeros(n \div LimbBits) \o BMulSmall(a, 2 ^ (n % LimbBits), 0)

\* floor(a / 2^n)
BShr(a, n) ==
    IF Len(a) <= n \div LimbBits THEN <<>>
    ELSE BDivSmall(SubSeq(a, n \div LimbBits + 1, Len(a)), 2 ^ (n % LimbBits)).q

\* bit n of a, bit 0 the lowest
BBit(a, n) ==
    IF Len(a) <= n \div LimbBits THEN 0
    ELSE (a[n \div LimbBits + 1] \div 2 ^ (n % LimbBits)) % 2

\* the n lowest bits of a are all 0
BLowZero(a, n) ==
    /\ \A i \in 1..(n \div LimbBits) : i > Len(a) \/ a[i] = 0
    /\ Len(a) <= n \div LimbBits \/ a[n \div LimbBits + 1] % 2 ^ (n % LimbBits) = 0

RECURSIVE BitLenInt(_)
BitLenInt(x) == IF x = 0 THEN 0 ELSE 1 + BitLenInt(x \div 2)

BBitLen(a) == IF a = <<>> THEN 0 ELSE LimbBits * (Len(a) - 1) + BitLenInt(a[Len(a)])

RECURSIVE TrailingZerosInt(_)
TrailingZerosInt(x) == IF x % 2 = 1 THEN 0 ELSE 1 + TrailingZerosInt(x \div 2)

\* for a # 0
RECURSIVE BTrailingZeros(_)
BTrailingZeros(a) ==
    IF a[1] = 0 THEN LimbBits + BTrailingZeros(Tail(a)) ELSE TrailingZerosInt(a[1])

\* ------------------------------------------------------ exact dyadic values
DZero == [s |-> 0, m |-> <<>>, e |-> 0]

\* (-1)^s * m * 2^e with m made odd
DyNorm(s, m, e) ==
    IF m = <<>> THEN DZero
    ELSE LET z == BTrailingZeros(m)
         IN  [s |-> s, m |-> BShr(m, z), e |-> e + z]

DyFromInt(i) == DyNorm(IF i < 0 THEN 1 ELSE 0, BFromInt(IF i < 0 THEN 0 - i ELSE i), 0)

DyNeg(x) == IF x.m = <<>> THEN x ELSE [x EXCEPT !.s = 1 - x.s]

DyAdd(x, y) ==
    IF x.m = <<>> THEN y
    ELSE IF y.m = <<>> THEN x
    ELSE LET e == IF x.e < y.e THEN x.e ELSE y.e
             mx == BShl(x.m, x.e - e)
             my == BShl(y.m, y.e - e)
             c == BCmp(mx, my)
         IN  IF x.s = y.s THEN DyNorm(x.s, BAdd(mx, my), e)
             ELSE IF c = 0 THEN DZero
             ELSE IF c > 0 THEN DyNorm(x.s, BSub(mx, my), e)
             ELSE DyNorm(y.s, BSub(my, mx), e)

DySub(x, y) == DyAdd(x, DyNeg(y))

DyMul(x, y) == DyNorm((x.s + y.s) % 2, BMul(x.m, y.m), x.e + y.e)

\* x < y, as the float comparison of Python (exact)
DLt(x, y) == LET d == DySub(x, y) IN d.m # <<>> /\ d.s = 1

\* ------------------------------------------------------- double arithmetic
\* round to nearest, ties to even, at 53 significant bits
Round53(x) ==
    LET n == BBitLen(x.m)
        sh == n - Precision
    IN  IF sh <= 0 THEN x
        ELSE LET q == BShr(x.m, sh)
                 half == BBit(x.m, sh - 1) = 1
                 sticky == ~BLowZero(x.m, sh - 1)
                 up == half /\ (sticky \/ BBit(q, 0) = 1)
             IN  DyNorm(x.s, IF up THEN BAdd(q, <<1>>) ELSE q, x.e + sh)

DAdd(x, y) == Round53(DyAdd(x, y))

DSub(x, y) == Round53(DySub(x, y))

DMul(x, y) == Round53(DyMul(x, y))

\* x / y for y # 0 whose odd part is below LimbBase (the divisors of this
\* program are small integers): the quotient to at least 56 bits, then a
\* sticky bit for the remainder, then rounded
DDiv(x, y) ==
    IF x.m = <<>> THEN DZero
    ELSE LET k == IMax(0, Precision + 3 + BBitLen(y.m) - BBitLen(x.m))
             qr == BDivSmall(BShl(x.m, k), y.m[1])
             q == BAdd(BShl(qr.q, 1), IF qr.r = 0 THEN <<>> ELSE <<1>>)
         IN  Round53(DyNorm((x.s + y.s) % 2, q, x.e - y.e - k - 1))

\* max(x, y) of Python: y only if y > x
DMax(x, y) == IF DLt(x, y) THEN y ELSE x

\* math.ceil, as an integer
DCeil(x) ==
    IF x.m = <<>> THEN 0
    ELSE IF x.e >= 0
         THEN (IF x.s = 0 THEN 1 ELSE 0 - 1) * BToInt(BShl(x.m, x.e))
    ELSE LET fl == BToInt(BShr(x.m, 0 - x.e))
         IN  IF x.s = 0 THEN fl + 1 ELSE 0 - fl

\* math.floor, as an integer
DFloor(x) == 0 - DCeil(DyNeg(x))

\* the float literals of the source
Float_0_5 == DDiv(DyFromInt(1), DyFromInt(2))
Float_0_3 == DDiv(DyFromInt(3), DyFromInt(10))
Float_0_7 == DDiv(DyFromInt(7), DyFromInt(10))
Float_0_2 == DDiv(DyFromInt(1), DyFromInt(5))

\* Average values the CloudWatch datapoints take in the handler's
\* specification: whole percentages and the double nearest to 50/3
SampleSet == {DyFromInt(44), DyFromInt(50), DDiv(DyFromInt(50), DyFromInt(3))}

\* a series of whole numbers as the floats the forecaster is given
Floats(ints) == [i \in 1..Len(ints) |-> DyFromInt(ints[i])]

\* ------------------------------------------------------------ forecaster
\* one pass of the loop body, lines 97-100, on (level, trend)
HoltStepNewLevel(value, alpha, beta, st) ==
    LET level == DAdd(DMul(alpha, value),
                      DMul(DSub(DyFromInt(1), alpha), DAdd(st.level, st.trend)))
        trend == DAdd(DMul(beta, DSub(level, level)),
                      DMul(DSub(DyFromInt(1), beta), st.trend))
    IN  [level |-> level, trend |-> trend]

HoltStep(value, alpha, beta, st) ==
    LET last_level == st.level
        level == DAdd(DMul(alpha, value),
                      DMul(DSub(DyFromInt(1), alpha), DAdd(st.level, st.trend)))
        trend == DAdd(DMul(beta, DSub(level, last_level)),
                      DMul(DSub(DyFromInt(1), beta), st.trend))
    IN  [level |-> level, trend |-> trend]

\* for i in range(1, len(series)): Python index i is series[i + 1] here
RECURSIVE HoltLoop(_, _, _, _, _)
HoltLoop(series, alpha, beta, i, st) ==
    IF i > Len(series) THEN st
    ELSE HoltLoop(series, alpha, beta, i + 1, HoltStep(series[i], alpha, beta, st))

\* level + trend * n_preds before the clamp (len(series) >= 2)
HoltForecast(series, alpha, beta, n_preds) ==
    LET st == HoltLoop(series, alpha, beta, 2,
                       [level |-> series[1],
                        trend |-> DSub(series[2], series[1])])
    IN  DAdd(st.level, DMul(st.trend, DyFromInt(n_preds)))

double_exponential_smoothing_noclamp(series, alpha, beta, n_preds) ==
    IF series = <<>> THEN DZero
    ELSE IF Len(series) = 1 THEN series[1]
    ELSE HoltForecast(series, alpha, beta, n_preds)

double_exponential_smoothing(series, alpha, beta, n_preds) ==
    IF series = <<>> THEN DZero
    ELSE IF Len(series) = 1 THEN series[1]
    ELSE DMax(DZero, HoltForecast(series, alpha, beta, n_preds))

DefaultAlpha == Float_0_5
DefaultBeta == Float_0_3

\* n_ahead = max(1, math.ceil(PREDICT_AHEAD_MIN * 60 / PERIOD))
n_ahead == IMax(1, DCeil(DDiv(DyFromInt(PREDICT_AHEAD_MIN * 60), DyFromInt(PERIOD))))

\* -------------------------------------------------------- capacity policy
\* lines 177-180: the try block and its fail-safe.  (pred * desired) /
\* TARGET_CPU_PER_TASK raises ZeroDivisionError exactly when the target is 0.
RequiredTasksNoFloor(pred, desired, target) ==
    IF target = 0 THEN desired
    ELSE DCeil(DDiv(DMul(pred, DyFromInt(desired)), DyFromInt(target)))

RequiredTasksFloor(pred, desired, target) ==
    IF target = 0 THEN desired
    ELSE IMax(1, DFloor(DDiv(DMul(pred, DyFromInt(desired)), DyFromInt(target))))

RequiredTasks(pred, desired, target) ==
    IF target = 0 THEN desired
    ELSE IMax(1, DCeil(DDiv(DMul(pred, DyFromInt(desired)), DyFromInt(target))))

\* line 187: desired - required >= 1 and pred < (0.7 * TARGET_CPU_PER_TASK)
ScaleDownAllowedNoHysteresis(pred, desired, required, target) ==
    desired - required >= 1

ScaleDownAllowed(pred, desired, required, target) ==
    /\ desired - required >= 1
    /\ DLt(pred, DMul(Float_0_7, DyFromInt(target)))

\* lines 182-193: which branch calls scale_service
ScaleWanted(pred, desired, required, target) ==
    \/ required > desired
    \/ required < desired /\ ScaleDownAllowed(pred, desired, required, target)

\* ---------------------------------------------------------- health policy
\* max(1, math.ceil(0.2 * max(1, len(tasks_all))))
StoppedThreshold(total) == IMax(1, DCeil(DMul(Float_0_2, DyFromInt(IMax(1, total)))))

\* line 133
HealNeededStrict(desired, running, stopped, total) ==
    \/ running < desired
    \/ stopped > StoppedThreshold(total)

HealNeeded(desired, running, stopped, total) ==
    \/ running < desired
    \/ stopped >= StoppedThreshold(total)

\* ------------------------------------------------------------------ state
VARIABLES
    pc,          \* position in lambda_handler
    status,      \* "running", the returned 'status', or "raised"
    target,      \* TARGET_CPU_PER_TASK
    svcDesired,  \* the ECS service's desiredCount
    svcRunning,  \* the ECS service's runningCount
    series,      \* lambda_handler: series
    pred,        \* lambda_handler: pred
    desired,     \* lambda_handler: desired
    running,     \* lambda_handler: running
    required,    \* lambda_handler: required
    hDesired,    \* heal_if_needed: desired
    hRunning,    \* heal_if_needed: running
    tasksTotal,  \* heal_if_needed: len(tasks_all)
    stopped,     \* heal_if_needed: stopped
    healed,      \* lambda_handler: healed
    calls,       \* the collaborator calls issued so far, in order
    fpc, fSeries, fAlpha, fBeta, fSteps, fResult  \* the forecaster on its own

hvars == <<pc, status, target, svcDesired, svcRunning, series, pred, desired,
           running, required, hDesired, hRunning, tasksTotal, stopped, healed, calls>>
fvars == <<fpc, fSeries, fAlpha, fBeta, fSteps, fResult>>
vars == <<hvars, fvars>>

Call(op, arg, ok) == [op |-> op, arg |-> arg, ok |-> ok]

RECURSIVE SeqsUpTo(_, _)
SeqsUpTo(S, n) ==
    IF n = 0 THEN {<<>>}
    ELSE LET shorter == SeqsUpTo(S, n - 1)
         IN  shorter \cup {Append(s, x) : s \in {t \in shorter : Len(t) = n - 1}, x \in S}

\* the series the metric source can return
SeriesSet == SeqsUpTo(SampleSet, MaxLen)

FIdle ==
    /\ fpc = "off" /\ fSeries = <<>> /\ fAlpha = DZero /\ fBeta = DZero
    /\ fSteps = 0 /\ fResult = DZero

Init ==
    /\ pc = "start"
    /\ status = "running"
    /\ target \in TargetSet
    /\ svcDesired \in 0..MaxCount
    /\ svcRunning \in 0..MaxCount
    /\ series = <<>>
    /\ pred = DZero
    /\ desired = 0 /\ running = 0 /\ required = 0
    /\ hDesired = 0 /\ hRunning = 0 /\ tasksTotal = 0 /\ stopped = 0
    /\ healed = FALSE
    /\ calls = <<>>
    /\ FIdle

\* ------------------------------------------------------------ collaborators
\* notify_slack(text), lines 55-66: returns (sent, skipped, or the urlopen
\* failure logged) or raises (get_slack_webhook's ssm.get_parameter raising
\* anything but ClientError, or urllib.request.Request rejecting the URL).
notify_slack(log, raises) == Append(log, Call("notify_slack", 0, ~raises))

\* fetch_cw_metric, lines 68-85: the Averages in timestamp order, [] on error
fetch_cw_metric(ok, dps) == IF ok THEN dps ELSE <<>>

\* scale_service(cluster, service, new_desired), lines 144-153.
\* upd: update_service succeeds; r1, r2: the first / second notify_slack raises.
\* An exception of the first notify_slack is caught by the same except clause.
scale_service(log, svc, new_desired, upd, r1, r2) ==
    LET log1 == Append(log, Call("update_service_desiredCount", new_desired, upd))
    IN  IF upd /\ ~r1
        THEN [calls |-> notify_slack(log1, FALSE), svc |-> new_desired,
              ret |-> TRUE, raised |-> FALSE]
        ELSE LET log2 == IF upd THEN notify_slack(log1, TRUE) ELSE log1
             IN  [calls |-> notify_slack(log2, r2),
                  svc |-> IF upd THEN new_desired ELSE svc,
                  ret |-> FALSE, raised |-> r2]

\* -------------------------------------------------------- lambda_handler
\* line 161
FetchMetrics ==
    /\ pc = "start"
    /\ \E ok \in BOOLEAN, dps \in SeriesSet :
          /\ series' = fetch_cw_metric(ok, dps)
          /\ calls' = Append(calls, Call("get_metric_statistics", 0, ok))
    /\ pc' = "fetched"
    /\ UNCHANGED <<status, target, svcDesired, svcRunning, pred, desired, running,
                   required, hDesired, hRunning, tasksTotal, stopped, healed, fvars>>

\* lines 163-165
ReportNoData ==
    /\ pc = "fetched"
    /\ series = <<>>
    /\ \E raises \in BOOLEAN :
          /\ calls' = notify_slack(calls, raises)
          /\ status' = IF raises THEN "raised" ELSE "no_data"
    /\ pc' = "done"
    /\ UNCHANGED <<target, svcDesired, svcRunning, series, pred, desired, running,
                   required, hDesired, hRunning, tasksTotal, stopped, healed, fvars>>

\* lines 168-169
Forecast ==
    /\ pc = "fetched"
    /\ series # <<>>
    /\ pred' = double_exponential_smoothing(series, DefaultAlpha, DefaultBeta, n_ahead)
    /\ pc' = "forecast"
    /\ UNCHANGED <<status, target, svcDesired, svcRunning, series, desired, running,
                   required, hDesired, hRunning, tasksTotal, stopped, healed, calls, fvars>>

\* lines 171-173; describe_service is not inside any try
FetchServiceState ==
    /\ pc = "forecast"
    /\ \E ok \in BOOLEAN :
          /\ calls' = Append(calls, Call("describe_services", 0, ok))
          /\ IF ok
             THEN /\ desired' = svcDesired
                  /\ running' = svcRunning
                  /\ pc' = "described"
                  /\ UNCHANGED status
             ELSE /\ status' = "raised"
                  /\ pc' = "done"
                  /\ UNCHANGED <<desired, running>>
    /\ UNCHANGED <<target, svcDesired, svcRunning, series, pred, required,
                   hDesired, hRunning, tasksTotal, stopped, healed, fvars>>

\* lines 177-181
DecideCapacity ==
    /\ pc = "described"
    /\ required' = RequiredTasks(pred, desired, target)
    /\ pc' = "decided"
    /\ UNCHANGED <<status, target, svcDesired, svcRunning, series, pred, desired,
                   running, hDesired, hRunning, tasksTotal, stopped, healed, calls, fvars>>

\* lines 182-193
ApplyScale ==
    /\ pc = "decided"
    /\ IF ScaleWanted(pred, desired, required, target)
       THEN \E upd \in BOOLEAN, r1 \in BOOLEAN, r2 \in BOOLEAN :
               LET res == scale_service(calls, svcDesired, required, upd, r1, r2)
               IN  /\ calls' = res.calls
                   /\ svcDesired' = res.svc
                   /\ IF res.raised
                      THEN status' = "raised" /\ pc' = "done"
                      ELSE status' = status /\ pc' = "scaled"
       ELSE /\ pc' = "scaled"
            /\ UNCHANGED <<calls, svcDesired, status>>
    /\ UNCHANGED <<target, svcRunning, series, pred, desired, running, required,
                   hDesired, hRunning, tasksTotal, stopped, healed, fvars>>
\* ---------------------------------------------------------- heal_if_needed
\* lines 119-121; describe_service is not inside any try
HealDescribe ==
    /\ pc = "scaled"
    /\ \E ok \in BOOLEAN :
          /\ calls' = Append(calls, Call("describe_services", 0, ok))
          /\ IF ok
             THEN /\ hDesired' = svcDesired
                  /\ hRunning' = svcRunning
                  /\ pc' = "heal_described"
                  /\ UNCHANGED status
             ELSE /\ status' = "raised"
                  /\ pc' = "done"
                  /\ UNCHANGED <<hDesired, hRunning>>
    /\ UNCHANGED <<target, svcDesired, svcRunning, series, pred, desired, running,
                   required, tasksTotal, stopped, healed, fvars>>

\* lines 124-131; list_tasks and describe_tasks are not inside any try.
\* total: the task ARNs listed; nStopped: the described tasks whose lastStatus
\* is STOPPED; describe_tasks is called only for a non-empty list.
HealListTasks ==
    /\ pc = "heal_described"
    /\ \E listOk \in BOOLEAN, descOk \in BOOLEAN, total \in 0..MaxTasks :
       \E nStopped \in 0..(IF total < MaxStopped THEN total ELSE MaxStopped) :
          LET log1 == Append(calls, Call("list_tasks", 0, listOk))
              log2 == IF listOk /\ total > 0
                      THEN Append(log1, Call("describe_tasks", total, descOk))
                      ELSE log1
              raised == ~listOk \/ (total > 0 /\ ~descOk)
          IN  /\ calls' = log2
              /\ IF raised
                 THEN /\ status' = "raised"
                      /\ pc' = "done"
                      /\ UNCHANGED <<tasksTotal, stopped>>
                 ELSE /\ tasksTotal' = total
                      /\ stopped' = nStopped
                      /\ pc' = "heal_listed"
                      /\ UNCHANGED status
    /\ UNCHANGED <<target, svcDesired, svcRunning, series, pred, desired, running,
                   required, hDesired, hRunning, healed, fvars>>

\* lines 133-142, then line 196.  An exception of update_service or of
\* notify_slack is caught by the except clause and heal_if_needed returns False.
HealDecide ==
    /\ pc = "heal_listed"
    /\ IF HealNeeded(hDesired, hRunning, stopped, tasksTotal)
       THEN \E upd \in BOOLEAN, raises \in BOOLEAN :
               LET log1 == Append(calls, Call("update_service_forceNewDeployment", 0, upd))
               IN  /\ calls' = IF upd THEN notify_slack(log1, raises) ELSE log1
                   /\ healed' = (upd /\ ~raises)
       ELSE /\ healed' = FALSE
            /\ UNCHANGED calls
    /\ status' = "ok"
    /\ pc' = "done"
    /\ UNCHANGED <<target, svcDesired, svcRunning, series, pred, desired, running,
                   required, hDesired, hRunning, tasksTotal, stopped, fvars>>

Next ==
    \/ FetchMetrics
    \/ ReportNoData
    \/ Forecast
    \/ FetchServiceState
    \/ DecideCapacity
    \/ ApplyScale
    \/ HealDescribe
    \/ HealListTasks
    \/ HealDecide

Spec == Init /\ [][Next]_vars

\* ------------------------------------------- the forecaster on its own
\* smoothing constants in (0,1); 0.5 and 0.3 are the defaults of line 87
SmoothingSet == {DDiv(DyFromInt(1), DyFromInt(4)), Float_0_3, Float_0_5}

\* series of the form a, a+d, a+2d, ... with n samples
Linear(a, d, n) == [i \in 1..n |-> a + d * (i - 1)]

ExampleSeries == {Linear(1, 1, 5), Linear(10, 2, 5)}

DESSeriesSet == SeqsUpTo(0..MaxSample, MaxSeriesLen) \cup ExampleSeries

HIdle ==
    /\ pc = "off" /\ status = "running" /\ target = 0
    /\ svcDesired = 0 /\ svcRunning = 0 /\ series = <<>> /\ pred = DZero
    /\ desired = 0 /\ running = 0 /\ required = 0
    /\ hDesired = 0 /\ hRunning = 0 /\ tasksTotal = 0 /\ stopped = 0
    /\ healed = FALSE /\ calls = <<>>

InitDES ==
    /\ HIdle
    /\ fpc = "ready"
    /\ fSeries \in DESSeriesSet
    /\ fAlpha \in SmoothingSet
    /\ fBeta \in SmoothingSet
    /\ fSteps \in 1..MaxSteps
    /\ fResult = DZero

CallDES ==
    /\ fpc = "ready"
    /\ fResult' = double_exponential_smoothing(Floats(fSeries), fAlpha, fBeta, fSteps)
    /\ fpc' = "done"
    /\ UNCHANGED <<fSeries, fAlpha, fBeta, fSteps, hvars>>

NextDES == CallDES

SpecDES == InitDES /\ [][NextDES]_vars
\* ----------------------------------------------------------- observations
ScaleCallIdx == {i \in 1..Len(calls) : calls[i].op = "update_service_desiredCount"}

ForceCalled == \E i \in 1..Len(calls) : calls[i].op = "update_service_forceNewDeployment"

\* the describe_service of line 171 returned
DescribedOk == \E i \in 1..Len(calls) : calls[i].op = "describe_services" /\ calls[i].ok

\* line 178-180 has assigned required
Decided ==
    \/ pc \in {"decided", "scaled", "heal_described", "heal_listed"}
    \/ pc = "done" /\ DescribedOk

\* the if / elif / else of lines 182-193 has run
ScaleStepDone ==
    \/ pc \in {"scaled", "heal_described", "heal_listed"}
    \/ pc = "done" /\ DescribedOk

\* heal_if_needed reached line 133 and lambda_handler returned
Returned == pc = "done" /\ status = "ok"

\* pred >= 0.7 * target, on the numerators
AtLeastSeventyPercent == ~DLt(DyMul(pred, DyFromInt(10)), DyFromInt(7 * target))

\* ----------------------------------------------------------------- C1
\* C1 (as claimed): once the required count is computed it is >= 1, and every
\* scale_service call carries a count >= 1.
C1_RequiredAlwaysPositive ==
    /\ Decided => required >= 1
    /\ \A i \in ScaleCallIdx : calls[i].arg >= 1

\* C1 (amended): every scale_service call carries a count >= 1, and the
\* required count is >= 1 except when TARGET_CPU_PER_TASK is 0 and the service
\* reports desiredCount 0: there the fail-safe yields required = desired = 0
\* and no scale_service call is issued.
C1_NeverScaledToZero ==
    /\ \A i \in ScaleCallIdx : calls[i].arg >= 1
    /\ Decided =>
          \/ required >= 1
          \/ target = 0 /\ desired = 0 /\ required = 0 /\ ScaleCallIdx = {}

\* a forecast clamped to 0 still scales a two-task service to 1, not to 0
C1_Witness ==
    /\ ScaleStepDone
    /\ pred = DZero /\ target > 0 /\ desired = 2 /\ required = 1
    /\ \E i \in ScaleCallIdx : calls[i].arg = 1

\* ----------------------------------------------------------------- C2
\* C2: a cycle whose series is empty ends with status 'no_data', having
\* issued no call but the metric fetch and the notification (no forecast, no
\* service describe, no scale, no redeploy).
C2_NoDataTerminal ==
    (pc = "done" /\ series = <<>>) =>
        /\ status = "no_data"
        /\ pred = DZero
        /\ \A i \in 1..Len(calls) : calls[i].op \in {"get_metric_statistics", "notify_slack"}

\* ----------------------------------------------------------------- C3
\* C3: a scale_service call below the current desiredCount is issued only if
\* desired - required >= 1 and pred < 0.7 * target; when required < desired
\* but pred >= 0.7 * target no scale_service call is issued at all (a call
\* issued then shows pred < 0.7 * target).
C3_ConservativeScaleDown ==
    /\ \A i \in ScaleCallIdx :
          calls[i].arg < desired => (desired - required >= 1 /\ ~AtLeastSeventyPercent)
    /\ (ScaleStepDone /\ required < desired /\ ScaleCallIdx # {}) => ~AtLeastSeventyPercent

\* a positive target, a forecast in [0.7 * target, target) and no scale-down
C3_Witness ==
    /\ ScaleStepDone
    /\ target > 0 /\ required < desired /\ AtLeastSeventyPercent
    /\ ScaleCallIdx = {}

\* ----------------------------------------------------------------- C4
\* pred * desired, exactly
ExactDemand == DyMul(pred, DyFromInt(desired))

\* r = max(1, ceil(pred * desired / target)) over the reals, for target > 0,
\* by inequalities
IsRequiredCount(r) ==
    /\ r >= 1
    /\ ~DLt(DyFromInt(r * target), ExactDemand)
    /\ r = 1 \/ DLt(DyFromInt((r - 1) * target), ExactDemand)

\* C4 (as claimed): for target > 0 and desired >= 1 the required count is
\* max(1, ceil(pred * desired / target)); required > desired issues
\* scale_service(required) in the same cycle; required = desired issues none.
C4_RequiredFormulaExact ==
    (target > 0 /\ desired >= 1) =>
        /\ Decided => IsRequiredCount(required)
        /\ (ScaleStepDone /\ required > desired) =>
              \E i \in ScaleCallIdx : calls[i].arg = required
        /\ (ScaleStepDone /\ required = desired) => ScaleCallIdx = {}

\* x * (1 + 2^-50) and x * (1 - 2^-50), exactly
SlackUp(x) == DyAdd(x, DyMul(x, [s |-> 0, m |-> <<1>>, e |-> 0 - 50]))
SlackDown(x) == DySub(x, DyMul(x, [s |-> 0, m |-> <<1>>, e |-> 0 - 50]))

\* r = max(1, ceil(q)) for some q within a relative 2^-50 of the real
\* pred * desired / target, for target > 0
IsRequiredCountRounded(r) ==
    LET demand == ExactDemand
    IN  /\ r >= 1
        /\ ~DLt(DyFromInt(r * target), SlackDown(demand))
        /\ r = 1 \/ DLt(DyFromInt((r - 1) * target), SlackUp(demand))

\* C4 (amended): for target > 0 and desired >= 1 the required count is
\* max(1, ceil(q)) with q the float quotient (pred * desired) / target, which
\* is within a relative 2^-50 of the real quotient: it is the real
\* max(1, ceil(pred * desired / target)) unless the real quotient is that
\* close to a whole number (stated where lines 178-180 have just assigned
\* required, which no later step changes).  required > desired issues
\* scale_service(required) in the same cycle; required = desired issues none.
C4_RequiredFormulaAndScaleUp ==
    (target > 0 /\ desired >= 1) =>
        /\ pc = "decided" => IsRequiredCountRounded(required)
        /\ (ScaleStepDone /\ required > desired) =>
              \E i \in ScaleCallIdx : calls[i].arg = required
        /\ (ScaleStepDone /\ required = desired) => ScaleCallIdx = {}

\* forecast 80, desired 2, target 60: scale up to 3
C4_Witness ==
    /\ ScaleStepDone
    /\ pred = DyFromInt(80) /\ desired = 2 /\ target = 60 /\ required = 3
    /\ \E i \in ScaleCallIdx : calls[i].arg = 3

\* forecast 16.666666666666668 (just above 50/3), desired 3, target 50: the
\* float product is 50.0 and the required count 1, the real quotient exceeds 1
C4_RoundedBelow ==
    /\ Decided /\ target = 50 /\ desired = 3
    /\ pred = DDiv(DyFromInt(50), DyFromInt(3))
    /\ required = 1 /\ ~IsRequiredCount(1)

\* ----------------------------------------------------------------- C5
\* running < desired or stopped >= max(1, ceil(0.2 * max(1, total))), on integers
HealCondition ==
    \/ hRunning < hDesired
    \/ stopped >= 1 /\ 5 * stopped >= IMax(1, tasksTotal)

\* C5: in a cycle that evaluates the health decision, the forced redeployment
\* is issued if and only if runningCount < desiredCount or stoppedTaskCount >=
\* max(1, ceil(0.2 * max(1, totalKnownTasks))); it is issued nowhere else.
C5_HealIff ==
    /\ Returned => (ForceCalled <=> HealCondition)
    /\ ForceCalled => (Returned /\ HealCondition)

\* six known tasks, two stopped, running >= desired: healed on the churn signal
C5_Witness ==
    /\ Returned
    /\ hRunning >= hDesired /\ tasksTotal = 6 /\ stopped = 2
    /\ ForceCalled

\* ----------------------------------------------------------------- C6
\* C6: a failing collaborator call never aborts the cycle: the invocation
\* always ends by returning a result ('ok' or 'no_data'), never by raising.
C6_AlwaysReturnsResult == pc = "done" => status \in {"ok", "no_data"}

\* ----------------------------------------------------------------- C7
\* C7: with TARGET_CPU_PER_TASK <= 0 the required count is the current desired
\* count and no scale_service call is issued.
C7_FailSafeOnInvalidTarget ==
    (ScaleStepDone /\ target <= 0) => (required = desired /\ ScaleCallIdx = {})

\* ----------------------------------------------------------------- C8
\* C8: double_exponential_smoothing returns a value >= 0 for non-negative
\* samples, 0 on the empty series and x on the one-sample series [x].
C8_ForecastNonNegative ==
    fpc = "done" =>
        /\ fResult.s = 0
        /\ fSeries = <<>> => fResult = DZero
        /\ Len(fSeries) = 1 => fResult = DyFromInt(fSeries[1])

\* a downward trend extrapolates below zero and is clamped to 0
C8_Witness ==
    /\ fpc = "done"
    /\ Len(fSeries) >= 2
    /\ DLt(HoltForecast(Floats(fSeries), fAlpha, fBeta, fSteps), DZero)
    /\ fResult = DZero

\* ----------------------------------------------------------------- C9
IsIncreasingLinear(s) ==
    /\ Len(s) >= 2
    /\ s[2] > s[1]
    /\ \A i \in 2..Len(s) : s[i] - s[i - 1] = s[2] - s[1]

\* C9 (as claimed): on a strictly increasing linear series with difference d
\* the forecast exceeds the last sample, and with alpha = 0.5, beta = 0.3 it
\* equals last + d * n_preds.
C9_LinearForecastExact ==
    (fpc = "done" /\ IsIncreasingLinear(fSeries)) =>
        LET last == fSeries[Len(fSeries)]
            d == fSeries[2] - fSeries[1]
        IN  /\ DLt(DyFromInt(last), fResult)
            /\ (fAlpha = Float_0_5 /\ fBeta = Float_0_3) =>
                  fResult = DyFromInt(last + d * fSteps)

\* |x - v| * 2^40 <= v, exactly
WithinRounding(x, v) ==
    LET diff == DySub(x, DyFromInt(v))
        abs == [diff EXCEPT !.s = 0]
    IN  ~DLt(DyFromInt(v), DyMul(abs, [s |-> 0, m |-> <<1>>, e |-> 40]))

\* C9 (amended): on a strictly increasing linear series with difference d the
\* forecast exceeds the last sample, and with alpha = 0.5, beta = 0.3 it
\* equals last + d * n_preds up to floating-point rounding (relative error at
\* most 2^-40), exactly so on [1,2,3,4,5] and [10,12,14,16,18] one step ahead.
C9_LinearTrendExtrapolated ==
    (fpc = "done" /\ IsIncreasingLinear(fSeries)) =>
        LET last == fSeries[Len(fSeries)]
            d == fSeries[2] - fSeries[1]
        IN  /\ DLt(DyFromInt(last), fResult)
            /\ (fAlpha = Float_0_5 /\ fBeta = Float_0_3) =>
                  /\ WithinRounding(fResult, last + d * fSteps)
                  /\ (fSeries \in ExampleSeries /\ fSteps = 1) =>
                        fResult = DyFromInt(last + d)

\* [10,12,14,16,18] with alpha 0.5, beta 0.3, one step ahead gives 20
C9_Witness ==
    /\ fpc = "done"
    /\ fSeries = <<10, 12, 14, 16, 18>>
    /\ fAlpha = Float_0_5 /\ fBeta = Float_0_3 /\ fSteps = 1
    /\ fResult = DyFromInt(20)

\* ----------------------------------------------------------------- C10
ScaleUpSucceeded ==
    \E i \in ScaleCallIdx : calls[i].ok /\ calls[i].arg > desired

\* C10: the health decision is evaluated on the desiredCount and runningCount
\* read before the capacity decision, so a successful scale-up of a service
\* whose runningCount equalled its desiredCount and which has no stopped task
\* triggers no forced redeployment.
C10_HealUsesFetchedState ==
    Returned =>
        /\ hDesired = desired
        /\ hRunning = running
        /\ (ScaleUpSucceeded /\ running = desired /\ stopped = 0) => ~ForceCalled
====
